---- MODULE Spec2Model ----
(***************************************************************************)
(* Model of lkhz.py: the LKHZ estimator (constructor, cpu0_offset, _gv,    *)
(* user_hz, jiffies_to_datetime, calibrate, analyze) together with the     *)
(* kernel files it reads (/proc/uptime, /proc/timer_list, /proc/config.gz, *)
(* /proc/stat).                                                            *)
(*                                                                         *)
(* Numbers.  Python integers are unbounded and the jiffies arithmetic uses *)
(* 1 << 32, so integers are kept as six limbs of base 10^4, least          *)
(* significant first, the top limb carrying the sign.  A float that the    *)
(* code rounds to 8 decimals (HZ, _avg, _min, _max) is kept as the integer *)
(* value * 10^8 in the same representation, and round(x, 8) is modelled as *)
(* round-half-even of the exact quotient.  Times (uptime, offset,          *)
(* since_boot) are whole seconds: the kernel readings the model draws are  *)
(* "N.00" in /proc/uptime and N * 10^9 ns in /proc/timer_list.             *)
(***************************************************************************)
EXTENDS Integers, Sequences, FiniteSets, TLC

\* ------------------------------------------------------------------ bounds
\* self._count: the window capacity (100 in the source), scaled down so that
\* the truncation of line 132 is reached.
Count == 2
\* Most _gv calls in one behaviour.
MaxPolls == 3
\* Most changes of the kernel clocks (advances, suspends) in one behaviour.
MaxClockEvents == 2

\* ------------------------------------------------- unbounded integers
Base == 100 * 100

\* carries propagated upward: every limb but the top one ends in 0..Base-1
Carry(s) ==
    LET v2 == s[2] + (s[1] \div Base)
        v3 == s[3] + (v2 \div Base)
        v4 == s[4] + (v3 \div Base)
        v5 == s[5] + (v4 \div Base)
        v6 == s[6] + (v5 \div Base)
    IN  <<s[1] % Base, v2 % Base, v3 % Base, v4 % Base, v5 % Base, v6>>

FromInt(n) == Carry(<<n, 0, 0, 0, 0, 0>>)
BigZero == <<0, 0, 0, 0, 0, 0>>
BigAdd(a, b) ==
    Carry(<<a[1] + b[1], a[2] + b[2], a[3] + b[3], a[4] + b[4], a[5] + b[5], a[6] + b[6]>>)
BigSub(a, b) ==
    Carry(<<a[1] - b[1], a[2] - b[2], a[3] - b[3], a[4] - b[4], a[5] - b[5], a[6] - b[6]>>)
BigNeg(a) == BigSub(BigZero, a)
\* a * k for a small integer k (|k| <= 10^5)
BigMulSmall(a, k) ==
    Carry(<<a[1] * k, a[2] * k, a[3] * k, a[4] * k, a[5] * k, a[6] * k>>)
BigIsNeg(a) == a[6] < 0
BigLess(a, b) == BigIsNeg(BigSub(a, b))
BigLeq(a, b) == ~BigLess(b, a)
\* the value of a limb vector that fits a machine integer
ToInt(a) == a[1] + Base * a[2] + Base * Base * a[3]

\* floor(a / d) and a mod d for a small integer d > 0, by long division
BigDivMod(a, d) ==
    LET q6 == a[6] \div d
        v5 == (a[6] % d) * Base + a[5]
        v4 == (v5 % d) * Base + a[4]
        v3 == (v4 % d) * Base + a[3]
        v2 == (v3 % d) * Base + a[2]
        v1 == (v2 % d) * Base + a[1]
    IN  [q |-> <<v1 \div d, v2 \div d, v3 \div d, v4 \div d, v5 \div d, q6>>, r |-> v1 % d]
BigFloorDiv(a, d) == BigDivMod(a, d).q

\* a / d rounded to the nearest integer, ties to even (d > 0)
RoundDivPos(a, d) ==
    LET dm == BigDivMod(a, d)
        up == \/ 2 * dm.r > d
              \/ 2 * dm.r = d /\ dm.q[1] % 2 = 1
    IN  IF up THEN BigAdd(dm.q, FromInt(1)) ELSE dm.q
\* a / d rounded to the nearest integer, ties to even (d # 0)
RoundDiv(a, d) == IF d > 0 THEN RoundDivPos(a, d) ELSE RoundDivPos(BigNeg(a), 0 - d)

\* value * 10^8 and floor(value / 10^8): two limbs up, two limbs down
Scale8(a) == BigMulSmall(BigMulSmall(a, Base), Base)
Floor8(a) == Carry(<<a[3], a[4], a[5], a[6], 0, 0>>)
\* Python int(x) of a float kept as x * 10^8: truncation toward zero
TruncInt(x) == IF BigIsNeg(x) THEN BigNeg(Floor8(BigNeg(x))) ELSE Floor8(x)

\* 1 << 32
TwoTo32 == BigMulSmall(FromInt(65536), 65536)

Abs(x) == IF x < 0 THEN 0 - x ELSE x

\* ------------------------------------------------------------- state
VARIABLES
    \* the kernel
    mono,            \* seconds of CLOCK_MONOTONIC since boot
    suspended,       \* seconds spent suspended (the boottime clock's offset)
    hasBoottime,     \* /proc/timer_list names ktime_get_boottime
    cfgLines,        \* /proc/config.gz, one entry per line
    kernelHz,        \* the HZ the running kernel was built with
    ticks, suspends, \* how often the clocks advanced, the machine suspended
    \* the LKHZ instance
    pc,              \* "new", "idle", "calibrate", "analyze", "crashed"
    err,             \* the exception that ended the process, "" when none
    attrs,           \* the attributes that exist beyond those of __init__
    _hz, config_hz, offset, last_since_boot, _oavg,
    since_boot, jiffies, HZ, _avg, _min, _max, _delta, _start,
    \* locals of the running method
    i,               \* calibrate's loop index
    adj_jiffies,     \* _gv's adj_jiffies
    adj_arg,         \* jiffies_to_datetime's adj_jiffies
    _drift,          \* analyze's _drift
    ts,              \* jiffies_to_datetime's result: <<microseconds since the epoch>>,
                     \* <<>> while it has not returned
    arg,             \* jiffies_to_datetime's argument
    live_offset,     \* the cpu0_offset jiffies_to_datetime read
    \* history
    polls,           \* _gv calls so far
    hist,            \* the HZ values of the successful polls, in arrival order
    avgwin,          \* the list the last average was computed over (line 133)
    prev_min, prev_max, \* _min and _max as the last poll found them
    prev_hz, prev_HZ,   \* _hz and HZ as the last poll found them
    recal,           \* the last poll re-read the reference offset
    recals,          \* polls that re-read the reference offset
    jumps,           \* polls whose reading was more than 1 s off the previous corrected value
    prev_corrected,  \* the previous corrected value (reading minus stored offset)
    offset_before,   \* offset as the last poll found it
    last_before,     \* last_since_boot as the last poll found it
    last_raw,        \* the /proc/uptime reading of the last poll
    ref_offset,      \* the boottime clock's offset when the last poll ran
    calibrations,    \* completed calibrate() calls
    cycles           \* analyze cycles that computed a drift

envVars == <<mono, suspended, hasBoottime, cfgLines, kernelHz, ticks, suspends>>
selfVars == <<attrs, _hz, config_hz, offset, last_since_boot, _oavg, since_boot,
              jiffies, HZ, _avg, _min, _max, _delta, _start>>
gvHist == <<polls, hist, avgwin, prev_min, prev_max, prev_hz, prev_HZ, recal, recals,
            jumps, prev_corrected, offset_before, last_before, last_raw, ref_offset,
            adj_jiffies>>
j2dVars == <<ts, arg, live_offset, adj_arg>>
vars == <<envVars, selfVars, gvHist, j2dVars, pc, err, i, _drift, calibrations, cycles>>

\* ------------------------------------------------------- the kernel files
\* CONFIG_HZ of the running kernel
KernelHzValues == {250}
\* monotonic seconds since boot at which the program may start
StartMonos == {0, 299, 4100}
\* by how many seconds the clocks advance between two looks at them
TickSeconds == {1, 2}
\* the length of a suspend, in seconds
SuspendSeconds == {5}
\* by how many ticks the jiffies counter may be ahead of HZ * elapsed
Jitter == {0, 1}
\* raw jiffies values handed to jiffies_to_datetime
JiffiesArgs == {FromInt(1000000)}
\* btime of /proc/stat, seconds since the epoch
btime == FromInt(1700000000)

\* /proc/uptime, first field
uptime == mono + suspended
\* int(time.time())
WallClock == 1700000000 + uptime

\* /proc/config.gz: a line is [key, value]
ConfigGz(hz, withHz) ==
    <<[key |-> "CONFIG_64BIT", value |-> 1]>>
    \o (IF withHz THEN <<[key |-> "CONFIG_HZ", value |-> hz]>> ELSE <<>>)
    \o <<[key |-> "CONFIG_HZ_PERIODIC", value |-> 1]>>

\* /proc/timer_list: a line is [boottime: it ends with ktime_get_boottime,
\* field: its next-to-last field]; one clock per cpu, two cpus
NsOf(seconds) == BigMulSmall(BigMulSmall(BigMulSmall(FromInt(seconds), 1000), 1000), 1000)
ClockLines(named, ns) ==
    << [boottime |-> FALSE, field |-> FromInt(2)],
       [boottime |-> named, field |-> FromInt(0)],
       [boottime |-> FALSE, field |-> ns] >>
timer_list == ClockLines(hasBoottime, NsOf(suspended)) \o ClockLines(hasBoottime, NsOf(suspended))

\* ---------------------------------------------------------- cpu0_offset
\* lines 59-71: the scan with its go counter
RECURSIVE ScanOffset(_, _, _, _)
ScanOffset(lines, n, go, off) ==
    IF n > Len(lines) \/ go = 0
    THEN off
    ELSE IF go = 2
         THEN ScanOffset(lines, n + 1, IF lines[n].boottime THEN 1 ELSE 2, off)
         ELSE ScanOffset(lines, n + 1, 0, lines[n].field)
\* line 73: offset/1000000000, in whole seconds
NsToSeconds(ns) == ToInt(BigFloorDiv(BigFloorDiv(BigFloorDiv(ns, 1000), 1000), 1000))
\* variant: the offset line of the first clock, whatever its name
Cpu0OffsetFixedIndex(lines) == NsToSeconds(lines[3].field)
Cpu0OffsetOf(lines) == NsToSeconds(ScanOffset(lines, 1, 2, BigZero))
cpu0_offset == Cpu0OffsetOf(timer_list)

\* ------------------------------------------------- _read_kernel_config_gz
\* lines 27-35: the first CONFIG_HZ= line as <<int>>, <<>> for None
RECURSIVE ReadConfig(_, _)
ReadConfig(lines, n) ==
    IF n > Len(lines)
    THEN <<>>
    ELSE IF lines[n].key = "CONFIG_HZ"
         THEN <<lines[n].value>>
         ELSE ReadConfig(lines, n + 1)
_read_kernel_config_gz == ReadConfig(cfgLines, 1)

\* the jiffies: line of /proc/timer_list: jiffies_64 starts 300 s of ticks
\* below 2^32 and counts HZ ticks per monotonic second
KernelJiffies(jit) ==
    BigAdd(BigSub(TwoTo32, FromInt(300 * kernelHz)), FromInt(kernelHz * mono + jit))

\* the counter never runs backwards between two reads
Forward(j) == "jiffies" \in attrs => BigLeq(jiffies, j)

\* ------------------------------------------------------------- user_hz
\* line 48: int(self.HZ+2 // 50*50); // and * bind tighter than +
UserHzOf(hz) == TruncInt(BigAdd(hz, Scale8(FromInt((2 \div 50) * 50))))
user_hz == UserHzOf(HZ)

\* ----------------------------------------------------------------- _gv
\* line 103
RecalNeeded(sb, last) == Abs(sb - last) > 1
\* variant: the new offset applied without undoing the stored one
RecorrectNoUndo(sb, old, new) == sb - new
\* variant: the new offset applied a second time
RecorrectTwice(sb, old, new) == ((sb + old) - new) - new
\* lines 104-106: undo the stored offset, re-read it, apply the new one
Recorrect(sb, old, new) == (sb + old) - new
\* variant: the wraparound taken from 300 s on
AdjJiffiesFrom300(j, hz, sb) ==
    LET a == BigAdd(j, FromInt(300 * hz))
    IN  IF sb >= 300 THEN BigSub(a, TwoTo32) ELSE a
\* lines 126-128
AdjJiffies(j, hz, sb) ==
    LET a == BigAdd(j, FromInt(300 * hz))
    IN  IF sb > 300 THEN BigSub(a, TwoTo32) ELSE a
\* variant: a zero divisor yields 0.0 instead of raising
InstantHzSilent(adj, sb) ==
    IF sb = 0
    THEN [exc |-> "", value |-> BigZero]
    ELSE [exc |-> "", value |-> RoundDiv(Scale8(adj), sb)]
\* line 130: round(adj_jiffies / self.since_boot, 8); a float division by
\* zero raises
InstantHz(adj, sb) ==
    IF sb = 0
    THEN [exc |-> "ZeroDivisionError", value |-> BigZero]
    ELSE [exc |-> "", value |-> RoundDiv(Scale8(adj), sb)]
\* line 132: self._hz[-1 * self._count:]
Truncate(s) == IF Len(s) <= Count THEN s ELSE SubSeq(s, Len(s) - Count + 1, Len(s))
RECURSIVE BigSum(_)
BigSum(s) == IF s = <<>> THEN BigZero ELSE BigAdd(Head(s), BigSum(Tail(s)))
\* variant: the sum divided by the capacity instead of the length
MeanOverCount(s) == RoundDiv(BigSum(s), Count)
\* line 133: round(sum(self._hz)/len(self._hz), 8)
Mean8(s) == RoundDiv(BigSum(s), Len(s))
\* variant: the previous extremes are not appended
WithoutExtremes(s, has, mn, mx) == s
\* variant: only the previous max is appended
WithMaxOnly(s, has, mn, mx) == IF has THEN s \o <<mx>> ELSE s
\* lines 134-136
WithExtremes(s, has, mn, mx) == IF has THEN s \o <<mn, mx>> ELSE s
\* lines 138-139: the values are already rounded to 8 decimals
RECURSIVE BigMin(_)
BigMin(s) ==
    IF Len(s) = 1 THEN s[1]
    ELSE LET m == BigMin(Tail(s)) IN IF BigLeq(s[1], m) THEN s[1] ELSE m
RECURSIVE BigMax(_)
BigMax(s) ==
    IF Len(s) = 1 THEN s[1]
    ELSE LET m == BigMax(Tail(s)) IN IF BigLeq(m, s[1]) THEN s[1] ELSE m

\* lines 95-140: the fields _gv leaves behind and the exception it raises
Gv(jit) ==
    LET sb0 == uptime - offset
        re  == RecalNeeded(sb0, last_since_boot)
        off == IF re THEN cpu0_offset ELSE offset
        sb  == IF re THEN Recorrect(sb0, offset, off) ELSE sb0
        jf  == KernelJiffies(jit)
        adj == AdjJiffies(jf, config_hz[1], sb)
        q   == InstantHz(adj, sb)
        exc == IF config_hz = <<>> THEN "TypeError" ELSE q.exc
        hz  == q.value
        w1  == Truncate(Append(_hz, hz))
        w2  == WithExtremes(w1, "_min" \in attrs, _min, _max)
        ok  == exc = ""
    IN  [ exc |-> exc, recal |-> re,
          since_boot |-> sb, offset |-> off, last_since_boot |-> sb, jiffies |-> jf,
          adj_jiffies |-> IF config_hz = <<>> THEN adj_jiffies ELSE adj,
          HZ   |-> IF ok THEN hz ELSE HZ,
          avgwin  |-> IF ok THEN w1 ELSE avgwin,
          _hz  |-> IF ok THEN w2 ELSE _hz,
          _avg |-> IF ok THEN Mean8(w1) ELSE _avg,
          _min |-> IF ok THEN BigMin(w2) ELSE _min,
          _max |-> IF ok THEN BigMax(w2) ELSE _max,
          _delta |-> IF ok THEN BigSub(BigMax(w2), BigMin(w2)) ELSE _delta,
          attrs |-> attrs \cup {"since_boot", "jiffies"}
                   \cup (IF ok THEN {"HZ", "_avg", "_min", "_max", "_delta"} ELSE {}) ]

\* _gv's effect on the instance, with the history it leaves
GvApply(r) ==
    /\ since_boot' = r.since_boot
    /\ offset' = r.offset
    /\ last_since_boot' = r.last_since_boot
    /\ jiffies' = r.jiffies
    /\ adj_jiffies' = r.adj_jiffies
    /\ HZ' = r.HZ
    /\ _hz' = r._hz
    /\ _avg' = r._avg
    /\ _min' = r._min
    /\ _max' = r._max
    /\ _delta' = r._delta
    /\ attrs' = r.attrs
    /\ avgwin' = r.avgwin
    /\ polls' = polls + 1
    /\ hist' = IF r.exc = "" THEN Append(hist, r.HZ) ELSE hist
    /\ prev_min' = _min
    /\ prev_max' = _max
    /\ prev_hz' = _hz
    /\ prev_HZ' = HZ
    /\ recal' = r.recal
    /\ recals' = recals + (IF r.recal THEN 1 ELSE 0)
    /\ jumps' = jumps + (IF Abs((uptime - offset) - prev_corrected) > 1 THEN 1 ELSE 0)
    /\ prev_corrected' = uptime - r.offset
    /\ offset_before' = offset
    /\ last_before' = last_since_boot
    /\ last_raw' = uptime
    /\ ref_offset' = suspended

\* ------------------------------------------------------ jiffies_to_datetime
\* variant: the wraparound decided on since_boot alone
AdjArgStoredOnly(j, uhz, sb, live) ==
    LET a == BigAdd(j, BigMulSmall(uhz, 300))
    IN  IF sb > 300 THEN BigSub(a, TwoTo32) ELSE a
\* lines 77-79
AdjArg(j, uhz, sb, live) ==
    LET a == BigAdd(j, BigMulSmall(uhz, 300))
    IN  IF sb + live > 300 THEN BigSub(a, TwoTo32) ELSE a
\* lines 82-91: fromtimestamp(adj_jiffies / config_hz + btime), in microseconds
Timestamp(adj, hz, bt) ==
    BigAdd(RoundDiv(BigMulSmall(BigMulSmall(adj, 1000), 1000), hz),
           BigMulSmall(BigMulSmall(bt, 1000), 1000))

\* ------------------------------------------------------------- actions
Init ==
    /\ mono \in StartMonos
    /\ suspended \in {0} \cup SuspendSeconds
    /\ hasBoottime \in BOOLEAN
    /\ kernelHz \in KernelHzValues
    /\ cfgLines \in {ConfigGz(kernelHz, b) : b \in BOOLEAN}
    /\ ticks = 0 /\ suspends = 0
    /\ pc = "new" /\ err = ""
    /\ attrs = {}
    /\ _hz = <<>> /\ config_hz = <<>> /\ offset = 0 /\ last_since_boot = 0
    /\ _oavg = BigZero /\ since_boot = 0 /\ jiffies = BigZero /\ HZ = BigZero
    /\ _avg = BigZero /\ _min = BigZero /\ _max = BigZero /\ _delta = BigZero
    /\ _start = 0
    /\ i = 0 /\ adj_jiffies = BigZero /\ _drift = BigZero
    /\ ts = <<>> /\ arg = BigZero /\ live_offset = 0 /\ adj_arg = BigZero
    /\ polls = 0 /\ hist = <<>> /\ avgwin = <<>>
    /\ prev_min = BigZero /\ prev_max = BigZero /\ prev_hz = <<>> /\ prev_HZ = BigZero
    /\ recal = FALSE /\ recals = 0 /\ jumps = 0 /\ prev_corrected = 0
    /\ offset_before = 0 /\ last_before = 0 /\ last_raw = 0 /\ ref_offset = 0
    /\ calibrations = 0 /\ cycles = 0

\* a method is running and will read the clocks again
Running == pc = "calibrate" \/ (pc = "analyze" /\ polls < MaxPolls)

\* time passes on the kernel's clocks
Tick ==
    /\ Running
    /\ ticks + suspends < MaxClockEvents
    /\ \E d \in TickSeconds : mono' = mono + d
    /\ ticks' = ticks + 1
    /\ UNCHANGED <<suspended, hasBoottime, cfgLines, kernelHz, suspends>>
    /\ UNCHANGED <<selfVars, gvHist, j2dVars, pc, err, i, _drift, calibrations, cycles>>

\* the machine suspends and resumes: the boottime clock moves, the monotonic one does not
Suspend ==
    /\ Running
    /\ ticks + suspends < MaxClockEvents
    /\ \E s \in SuspendSeconds : suspended' = suspended + s
    /\ suspends' = suspends + 1
    /\ UNCHANGED <<mono, hasBoottime, cfgLines, kernelHz, ticks>>
    /\ UNCHANGED <<selfVars, gvHist, j2dVars, pc, err, i, _drift, calibrations, cycles>>

\* lines 17-24: LKHZ()
Construct ==
    /\ pc = "new"
    /\ _hz' = <<>>
    /\ config_hz' = _read_kernel_config_gz
    /\ offset' = cpu0_offset
    /\ last_since_boot' = offset'
    /\ _oavg' = BigZero
    /\ prev_corrected' = last_since_boot'
    /\ pc' = "idle"
    /\ UNCHANGED <<attrs, since_boot, jiffies, HZ, _avg, _min, _max, _delta, _start>>
    /\ UNCHANGED <<polls, hist, avgwin, prev_min, prev_max, prev_hz, prev_HZ, recal,
                   recals, jumps, offset_before, last_before, last_raw, ref_offset,
                   adj_jiffies>>
    /\ UNCHANGED <<envVars, j2dVars, err, i, _drift, calibrations, cycles>>

\* line 38: calibrate() is entered
CalibrateCall ==
    /\ pc = "idle"
    /\ polls + Count <= MaxPolls
    /\ pc' = "calibrate"
    /\ i' = 0
    /\ ts' = <<>> /\ arg' = BigZero /\ live_offset' = 0 /\ adj_arg' = BigZero
    /\ UNCHANGED gvHist
    /\ UNCHANGED <<envVars, selfVars, err, _drift, calibrations, cycles>>

\* lines 38-39: one pass of calibrate's loop
CalibratePoll ==
    /\ pc = "calibrate"
    /\ i < Count
    /\ polls < MaxPolls
    /\ \E jit \in Jitter :
         \E r \in {Gv(jit)} :
             /\ Forward(r.jiffies)
             /\ GvApply(r)
             /\ err' = r.exc
             /\ pc' = IF r.exc = "" THEN "calibrate" ELSE "crashed"
             /\ i' = IF r.exc = "" THEN i + 1 ELSE i
    /\ UNCHANGED <<config_hz, _oavg, _start>>
    /\ UNCHANGED <<envVars, j2dVars, _drift, calibrations, cycles>>

\* lines 41-42: the baseline and the start time are taken
CalibrateReturn ==
    /\ pc = "calibrate"
    /\ i = Count
    /\ _oavg' = _avg
    /\ _start' = WallClock
    /\ attrs' = attrs \cup {"_start"}
    /\ calibrations' = calibrations + 1
    /\ pc' = "idle"
    /\ UNCHANGED <<_hz, config_hz, offset, last_since_boot, since_boot, jiffies, HZ,
                   _avg, _min, _max, _delta>>
    /\ UNCHANGED <<envVars, gvHist, j2dVars, err, i, _drift, cycles>>

\* lines 143-151: analyze() is entered and prints its header
AnalyzeCall ==
    /\ pc = "idle"
    /\ polls < MaxPolls
    /\ pc' = "analyze"
    /\ ts' = <<>> /\ arg' = BigZero /\ live_offset' = 0 /\ adj_arg' = BigZero
    /\ UNCHANGED gvHist
    /\ UNCHANGED <<envVars, selfVars, err, i, _drift, calibrations, cycles>>

\* lines 153-164: one cycle of analyze's loop
AnalyzeCycle ==
    /\ pc = "analyze"
    /\ polls < MaxPolls
    /\ \E jit \in Jitter :
         \E r \in {Gv(jit)} :
             /\ Forward(r.jiffies)
             /\ GvApply(r)
             /\ IF r.exc # ""
                THEN /\ err' = r.exc
                     /\ pc' = "crashed"
                     /\ UNCHANGED <<_drift, cycles>>
                ELSE /\ _drift' = BigSub(r._avg, _oavg)
                     /\ cycles' = cycles + 1
                     /\ IF "_start" \in attrs
                        THEN UNCHANGED <<pc, err>>
                        ELSE pc' = "crashed" /\ err' = "AttributeError"
    /\ UNCHANGED <<config_hz, _oavg, _start>>
    /\ UNCHANGED <<envVars, j2dVars, i, calibrations>>

\* lines 75-93: jiffies_to_datetime(j)
JiffiesToDatetime ==
    /\ pc = "idle"
    /\ \E j \in JiffiesArgs \cup {jiffies} :
         /\ arg' = j
         /\ IF "HZ" \notin attrs
            THEN /\ pc' = "crashed"
                 /\ err' = "AttributeError"
                 /\ UNCHANGED <<adj_arg, ts, live_offset>>
            ELSE /\ live_offset' = cpu0_offset
                 /\ adj_arg' = AdjArg(j, user_hz, since_boot, cpu0_offset)
                 /\ ts' = <<Timestamp(adj_arg', config_hz[1], btime)>>
                 /\ UNCHANGED <<pc, err>>
    /\ UNCHANGED <<envVars, selfVars, gvHist, i, _drift, calibrations, cycles>>

Next ==
    \/ Construct
    \/ Tick
    \/ Suspend
    \/ CalibrateCall
    \/ CalibratePoll
    \/ CalibrateReturn
    \/ AnalyzeCall
    \/ AnalyzeCycle
    \/ JiffiesToDatetime

Spec == Init /\ [][Next]_vars

\* lines 153-154: analyze's loop enters its next pass, which starts with a poll
AnalyzePass == pc = "analyze" /\ polls < MaxPolls /\ polls' = polls + 1
\* once analyze() is entered the interpreter keeps running its loop
FairSpec == Spec /\ WF_polls(AnalyzePass)

\* ------------------------------------------------------------- claims
\* the last n entries of s
LastN(s, n) == IF Len(s) <= n THEN s ELSE SubSeq(s, Len(s) - n + 1, Len(s))
\* floor((x + 2) / 50) * 50 of a float kept as x * 10^8
Floor50(x) == BigMulSmall(BigFloorDiv(Floor8(BigAdd(x, Scale8(FromInt(2)))), 50), 50)
\* /proc/config.gz has a CONFIG_HZ= line
HasConfigHz == \E n \in 1..Len(cfgLines) : cfgLines[n].key = "CONFIG_HZ"
\* -4,293,892,296
ExampleAdjusted == BigNeg(BigAdd(BigMulSmall(FromInt(42938), 100000), FromInt(92296)))

\* C1: whatever HZ estimate the estimator holds, user_hz is
\* floor((HZ + 2) / 50) * 50, a multiple of 50.
C1_UserHzIsFloor50 ==
    "HZ" \in attrs =>
        /\ user_hz = Floor50(HZ)
        /\ BigDivMod(user_hz, 50).r = 0

\* C2: after k >= 1 successful polls the average is taken over exactly the
\* last min(k, Count) instantaneous HZ values, in arrival order; the
\* re-appended extremes never enter it.
C2_AverageOverLastSamples ==
    Len(hist) >= 1 =>
        /\ Len(avgwin) <= Count
        /\ avgwin = LastN(hist, Count)
        /\ _avg = Mean8(LastN(hist, Count))

C4_AdjustedTicks ==
    (polls >= 1 /\ config_hz # <<>>) =>
        IF since_boot <= 300
        THEN adj_jiffies = BigAdd(jiffies, FromInt(300 * config_hz[1]))
        ELSE BigAdd(adj_jiffies, TwoTo32) = BigAdd(jiffies, FromInt(300 * config_hz[1]))
C4_Witness ==
    /\ polls >= 2 /\ config_hz # <<>> /\ since_boot = 301
    /\ BigAdd(adj_jiffies, TwoTo32) = BigAdd(jiffies, FromInt(300 * config_hz[1]))

\* C5: in every poll after the first, min and max are taken over the window
\* the average was taken over together with the previous min and max, and
\* variance = max - min.
C5_StickyExtremes ==
    (Len(hist) >= 2 /\ err # "ZeroDivisionError") =>
        /\ _min = BigMin(avgwin \o <<prev_min, prev_max>>)
        /\ _max = BigMax(avgwin \o <<prev_min, prev_max>>)
        /\ BigLeq(_min, prev_min) /\ BigLeq(prev_max, _max)
        /\ \A n \in 1..Len(avgwin) : BigLeq(_min, avgwin[n]) /\ BigLeq(avgwin[n], _max)
        /\ BigAdd(_min, _delta) = _max
\* the new sample is the new max; the min is the previous one, set by a
\* sample that is no longer among the last Count samples
C5_Witness ==
    /\ Len(hist) > Count
    /\ _max = HZ /\ BigLess(prev_max, HZ)
    /\ _min = prev_min
    /\ \A n \in 1..Count : BigLess(_min, LastN(hist, Count)[n])

\* C6: a poll whose corrected elapsed seconds are 0 ends in a
\* division-by-zero error and stores no instantaneous HZ and appends nothing
\* to the window.
C6_ZeroElapsedRaises ==
    (polls >= 1 /\ config_hz # <<>> /\ since_boot = 0) =>
        /\ err = "ZeroDivisionError"
        /\ pc = "crashed"
        /\ HZ = prev_HZ /\ _hz = prev_hz /\ Len(hist) = polls - 1
\* the failing poll follows a successful one
C6_Witness ==
    /\ polls >= 2 /\ since_boot = 0 /\ err = "ZeroDivisionError"
    /\ Len(hist) >= 1 /\ _hz = prev_hz /\ HZ = prev_HZ

C8_MissingConfigFails ==
    (~HasConfigHz /\ pc # "new") =>
        /\ pc = "crashed"
        /\ err = "ConfigNotFoundError"
        /\ polls = 0

\* C9: jiffies_to_datetime computes adjusted = raw + 300 * user_hz, less 2^32
\* exactly when since_boot + the live reference offset > 300, and returns the
\* timestamp of btime + adjusted / config_hz (to the microsecond); 1,000,000
\* raw ticks at user_hz = config_hz = 250, since_boot 4100, offset 0 give
\* adjusted = -4,293,892,296.
C9_JiffiesToDatetime ==
    ts # <<>> =>
        LET biased == BigAdd(arg, BigMulSmall(user_hz, 300))
            micros == BigSub(ts[1], BigMulSmall(BigMulSmall(btime, 1000), 1000))
            gap == BigSub(BigMulSmall(micros, config_hz[1]),
                          BigMulSmall(BigMulSmall(adj_arg, 1000), 1000))
        IN  /\ IF since_boot + live_offset > 300
               THEN BigAdd(adj_arg, TwoTo32) = biased
               ELSE adj_arg = biased
            /\ BigLeq(BigMulSmall(gap, 2), FromInt(config_hz[1]))
            /\ BigLeq(FromInt(0 - config_hz[1]), BigMulSmall(gap, 2))
            /\ (/\ arg = FromInt(1000000) /\ user_hz = FromInt(250)
                /\ config_hz = <<250>> /\ since_boot = 4100 /\ live_offset = 0)
               => adj_arg = ExampleAdjusted
C9_Witness ==
    /\ ts # <<>>
    /\ arg = FromInt(1000000) /\ user_hz = FromInt(250) /\ config_hz = <<250>>
    /\ since_boot = 4100 /\ live_offset = 0
    /\ adj_arg = ExampleAdjusted

\* C10: in every cycle of analyze the drift is the current average minus a
\* baseline that was captured exactly once, after a warm-up of Count polls.
C10_DriftAgainstBaseline ==
    cycles >= 1 =>
        /\ calibrations = 1
        /\ "_start" \in attrs
        /\ _drift = BigSub(_avg, _oavg)

\* analyze() was called on an instance on which calibrate() never ran
FreshAnalyze == pc = "analyze" /\ calibrations = 0 /\ polls = 0

\* C11: analyze() called on a freshly constructed instance eventually
\* terminates normally: control is back with the caller and no exception
\* was raised.
C11_FreshAnalyzeReturns == [](FreshAnalyze => <>(pc = "idle" /\ err = ""))

\* C12: after every poll, recalibrating or not, the stored corrected elapsed
\* value is the raw elapsed reading of that poll minus the offset stored at
\* the end of that poll, and last_since_boot equals that corrected value.
C12_CorrectedIsRawMinusOffset ==
    polls >= 1 =>
        /\ since_boot = last_raw - offset
        /\ last_since_boot = since_boot
\* a poll that recalibrated onto a new, non-zero offset
C12_Witness ==
    /\ polls >= 2 /\ recal
    /\ offset # offset_before /\ offset > 0 /\ offset_before > 0
    /\ since_boot = last_raw - offset
    /\ last_since_boot = since_boot

\* C13: the first poll after construction re-reads the reference offset only
\* if a suspend/resume happened since construction, and any poll re-reads it
\* only if its reading is more than 1 s off the corrected elapsed time the
\* poll before it observed.  Taken on a kernel whose listing names the
\* boottime clock and whose configuration has its CONFIG_HZ line.
C13_RecalOnlyOnJump ==
    /\ (polls = 1 /\ suspends = 0 /\ hasBoottime /\ HasConfigHz) => ~recal
    /\ (polls >= 2 /\ recal) => Abs((last_raw - offset_before) - last_before) > 1

\* C14: from one successful poll to the next the reported min never
\* increases, the reported max never decreases and the reported variance
\* never decreases, even when the extreme samples have left the window.
C14_ExtremesOnlyWiden ==
    [][("_min" \in attrs /\ Len(hist') > Len(hist)) =>
          /\ BigLeq(_min', _min)
          /\ BigLeq(_max, _max')
          /\ BigLeq(_delta, _delta')]_vars
\* the sample that set the min is no longer among the last Count samples,
\* the newest sample lies strictly inside the extremes, and they are kept
C14_Witness ==
    /\ Len(hist) > Count
    /\ \A n \in 1..Count : BigLess(_min, LastN(hist, Count)[n])
    /\ BigLess(_min, HZ) /\ BigLess(HZ, _max)
    /\ _min = prev_min /\ _max = prev_max
    /\ BigAdd(_min, _delta) = _max

\* C15: after every successful poll min <= average <= max and
\* min <= the instantaneous HZ of that poll <= max.
C15_ExtremesBracket ==
    (Len(hist) >= 1 /\ Len(hist) = polls) =>
        /\ BigLeq(_min, _avg) /\ BigLeq(_avg, _max)
        /\ BigLeq(_min, HZ) /\ BigLeq(HZ, _max)
\* a third poll whose sample and average lie strictly between the extremes
C15_Witness ==
    /\ Len(hist) >= 3 /\ Len(hist) = polls
    /\ BigLess(_min, _avg) /\ BigLess(_avg, _max)
    /\ BigLess(_min, HZ) /\ BigLess(HZ, _max)
    /\ _avg # HZ

====
